---- MODULE Spec2Model ----
(***************************************************************************)
(* Mergington High School activities API (src/src/app.py).                 *)
(*                                                                         *)
(* The MongoDB collection `activities` is a sequence of documents, each a  *)
(* record that may lack any field.  The request handlers run in worker     *)
(* threads; each store operation (find_one, update_one, find,              *)
(* count_documents, insert_many) is one atomic step of the store, and a    *)
(* handler that issues two of them (find_one, then update_one) takes two   *)
(* steps, between which other requests may run.                            *)
(***************************************************************************)
EXTENDS Integers, Sequences, FiniteSets, TLC

(***************************************************************************)
(* Bounds of the model.                                                    *)
(***************************************************************************)
NumProcs == 2          \* concurrent request workers

Procs == 1..NumProcs

\* Request inputs: path segment activity_name and query parameter email.
ActivityNames == {"Math Club", "Robotics Club", "Ghost Club"}
Emails == {"alice@mergington.edu", "bob@mergington.edu"}

(***************************************************************************)
(* The seed catalog.                                                        *)
(***************************************************************************)
INITIAL_ACTIVITIES ==
  << [name |-> "Chess Club",
      description |-> "Learn strategies and compete in chess tournaments",
      schedule |-> "Fridays, 3:30 PM - 5:00 PM",
      max_participants |-> 12,
      participants |-> <<"michael@mergington.edu", "daniel@mergington.edu">>],
     [name |-> "Programming Class",
      description |-> "Learn programming fundamentals and build software projects",
      schedule |-> "Tuesdays and Thursdays, 3:30 PM - 4:30 PM",
      max_participants |-> 20,
      participants |-> <<"emma@mergington.edu", "sophia@mergington.edu">>],
     [name |-> "Gym Class",
      description |-> "Physical education and sports activities",
      schedule |-> "Mondays, Wednesdays, Fridays, 2:00 PM - 3:00 PM",
      max_participants |-> 30,
      participants |-> <<"john@mergington.edu", "olivia@mergington.edu">>],
     [name |-> "Soccer Team",
      description |-> "Join the school soccer team and compete in matches",
      schedule |-> "Tuesdays and Thursdays, 4:00 PM - 5:30 PM",
      max_participants |-> 22,
      participants |-> <<"liam@mergington.edu", "noah@mergington.edu">>],
     [name |-> "Basketball Team",
      description |-> "Practice and play basketball with the school team",
      schedule |-> "Wednesdays and Fridays, 3:30 PM - 5:00 PM",
      max_participants |-> 15,
      participants |-> <<"ava@mergington.edu", "mia@mergington.edu">>],
     [name |-> "Art Club",
      description |-> "Explore your creativity through painting and drawing",
      schedule |-> "Thursdays, 3:30 PM - 5:00 PM",
      max_participants |-> 15,
      participants |-> <<"amelia@mergington.edu", "harper@mergington.edu">>],
     [name |-> "Drama Club",
      description |-> "Act, direct, and produce plays and performances",
      schedule |-> "Mondays and Wednesdays, 4:00 PM - 5:30 PM",
      max_participants |-> 20,
      participants |-> <<"ella@mergington.edu", "scarlett@mergington.edu">>],
     [name |-> "Math Club",
      description |-> "Solve challenging problems and participate in math competitions",
      schedule |-> "Tuesdays, 3:30 PM - 4:30 PM",
      max_participants |-> 10,
      participants |-> <<"james@mergington.edu", "benjamin@mergington.edu">>],
     [name |-> "Debate Team",
      description |-> "Develop public speaking and argumentation skills",
      schedule |-> "Fridays, 4:00 PM - 5:30 PM",
      max_participants |-> 12,
      participants |-> <<"charlotte@mergington.edu", "henry@mergington.edu">>] >>

(***************************************************************************)
(* Documents and the store operations of pymongo the service uses.         *)
(***************************************************************************)
\* Python's None, and any empty dict: the values `not x` accepts.
None == <<>>

\* dict.get(key, default)
Get(d, key, default) == IF key \in DOMAIN d THEN d[key] ELSE default

\* `email in participants`
Contains(participants, email) ==
  \E i \in 1..Len(participants) : participants[i] = email

\* The document d with field key set to value, the field created if absent.
SetField(d, key, value) ==
  [f \in DOMAIN d \cup {key} |-> IF f = key THEN value ELSE d[f]]

\* Does document d match the filter {"name": activity_name}?
Matches(d, activity_name) == "name" \in DOMAIN d /\ d["name"] = activity_name

RECURSIVE FirstMatchFrom(_, _, _)
\* Index of the first document from index i on that matches
\* {"name": activity_name}, 0 if none.
FirstMatchFrom(col, activity_name, i) ==
  IF i > Len(col) THEN 0
  ELSE IF Matches(col[i], activity_name) THEN i
  ELSE FirstMatchFrom(col, activity_name, i + 1)

\* Index of the first document matching {"name": activity_name}, 0 if none.
FirstMatch(col, activity_name) == FirstMatchFrom(col, activity_name, 1)

\* activities_col.count_documents({})
count_documents(col) == Len(col)

\* activities_col.insert_many(docs)
insert_many(col, docs) == col \o docs

\* activities_col.find_one({"name": activity_name})
find_one(col, activity_name) ==
  LET i == FirstMatch(col, activity_name)
  IN  IF i = 0 THEN None ELSE col[i]

RECURSIVE RemoveFirst(_, _)
\* list.remove(email): the array without its first occurrence of email.
RemoveFirst(participants, email) ==
  IF participants = <<>> THEN <<>>
  ELSE IF Head(participants) = email THEN Tail(participants)
  ELSE <<Head(participants)>> \o RemoveFirst(Tail(participants), email)

\* Faulty variant of Pull: the email is blanked and keeps its place, so the
\* array never shrinks.
Pull_LeavesBlank(participants, email) ==
  [i \in 1..Len(participants) |->
     IF participants[i] = email THEN "" ELSE participants[i]]

\* Faulty variant of Pull: the value pulled is not the email, so nothing
\* goes.
Pull_WrongValue(participants, email) == participants

\* Faulty variant of Pull: only the first occurrence goes.
Pull_FirstOnly(participants, email) == RemoveFirst(participants, email)

\* $pull: the array without any occurrence of email, the rest in order.
Pull(participants, email) ==
  SelectSeq(participants, LAMBDA x : x # email)

\* Variant of update_one_push that writes only while a spot is free, as a
\* filter on the array size in the update itself would.
update_one_push_Guarded(col, activity_name, email) ==
  LET i == FirstMatch(col, activity_name)
  IN  IF i = 0 THEN col
      ELSE IF Len(Get(col[i], "participants", <<>>))
                >= Get(col[i], "max_participants", 0) THEN col
      ELSE [col EXCEPT ![i] =
              SetField(@, "participants",
                       Append(Get(@, "participants", <<>>), email))]

\* Faulty variant of update_one_push: the filter is lost and every record
\* takes the email.
update_one_push_EveryRecord(col, activity_name, email) ==
  [i \in 1..Len(col) |->
     SetField(col[i], "participants",
              Append(Get(col[i], "participants", <<>>), email))]

\* Faulty variant of update_one_push: the email goes to the front.
update_one_push_Prepend(col, activity_name, email) ==
  LET i == FirstMatch(col, activity_name)
  IN  IF i = 0 THEN col
      ELSE [col EXCEPT ![i] =
              SetField(@, "participants",
                       <<email>> \o Get(@, "participants", <<>>))]

\* activities_col.update_one({"name": n}, {"$push": {"participants": email}})
update_one_push(col, activity_name, email) ==
  LET i == FirstMatch(col, activity_name)
  IN  IF i = 0 THEN col
      ELSE [col EXCEPT ![i] =
              SetField(@, "participants",
                       Append(Get(@, "participants", <<>>), email))]

\* activities_col.update_one({"name": n}, {"$pull": {"participants": email}})
update_one_pull(col, activity_name, email) ==
  LET i == FirstMatch(col, activity_name)
  IN  IF i = 0 THEN col
      ELSE IF "participants" \notin DOMAIN col[i] THEN col
      ELSE [col EXCEPT ![i] =
              SetField(@, "participants", Pull(@["participants"], email))]

(***************************************************************************)
(* Startup seeding.                                                         *)
(***************************************************************************)
\* Faulty variant of seed_activities_if_empty: no gate on the count.
seed_activities_Ungated(col) == insert_many(col, INITIAL_ACTIVITIES)

seed_activities_if_empty(col) ==
  IF count_documents(col) = 0 THEN insert_many(col, INITIAL_ACTIVITIES)
  ELSE col

(***************************************************************************)
(* Responses.                                                               *)
(***************************************************************************)
HTTPException(status_code, detail) ==
  [status |-> status_code, detail |-> detail]

Ok(message) == [status |-> 200, message |-> message]

\* A store operation raised inside a handler: the server answers 500.
ServerError == [status |-> 500]

\* The handler goes on to its update_one call.
Proceed == [status |-> 0]

\* Faulty variant of SignupCheck: capacity is checked before duplicate.
SignupCheck_CapacityFirst(col, activity_name, email) ==
  LET activity == find_one(col, activity_name)
      participants == Get(activity, "participants", <<>>)
      max_p == Get(activity, "max_participants", 0)
  IN  IF activity = None
        THEN HTTPException(404, "Activity not found")
      ELSE IF Len(participants) >= max_p
        THEN HTTPException(400, "No spots available")
      ELSE IF Contains(participants, email)
        THEN HTTPException(400, "Student is already signed up")
      ELSE Proceed

\* Faulty variant of SignupCheck: > for >= in the capacity check.
SignupCheck_OffByOne(col, activity_name, email) ==
  LET activity == find_one(col, activity_name)
      participants == Get(activity, "participants", <<>>)
      max_p == Get(activity, "max_participants", 0)
  IN  IF activity = None
        THEN HTTPException(404, "Activity not found")
      ELSE IF Contains(participants, email)
        THEN HTTPException(400, "Student is already signed up")
      ELSE IF Len(participants) > max_p
        THEN HTTPException(400, "No spots available")
      ELSE Proceed

\* Faulty variant of SignupCheck: the duplicate check is missing.
SignupCheck_NoDuplicateCheck(col, activity_name, email) ==
  LET activity == find_one(col, activity_name)
      participants == Get(activity, "participants", <<>>)
      max_p == Get(activity, "max_participants", 0)
  IN  IF activity = None
        THEN HTTPException(404, "Activity not found")
      ELSE IF Len(participants) >= max_p
        THEN HTTPException(400, "No spots available")
      ELSE Proceed

\* Faulty variant of SignupCheck: the existence check is missing.
SignupCheck_NoExistenceCheck(col, activity_name, email) ==
  LET activity == find_one(col, activity_name)
      participants == Get(activity, "participants", <<>>)
      max_p == Get(activity, "max_participants", 0)
  IN  IF Contains(participants, email)
        THEN HTTPException(400, "Student is already signed up")
      ELSE IF Len(participants) >= max_p
        THEN HTTPException(400, "No spots available")
      ELSE Proceed

\* signup_for_activity up to its update_one call: the error it raises, or
\* Proceed.
SignupCheck(col, activity_name, email) ==
  LET activity == find_one(col, activity_name)
      participants == Get(activity, "participants", <<>>)
      max_p == Get(activity, "max_participants", 0)
  IN  IF activity = None
        THEN HTTPException(404, "Activity not found")
      ELSE IF Contains(participants, email)
        THEN HTTPException(400, "Student is already signed up")
      ELSE IF Len(participants) >= max_p
        THEN HTTPException(400, "No spots available")
      ELSE Proceed

\* Faulty variant of UnregisterCheck: the membership check is missing.
UnregisterCheck_NoMembershipCheck(col, activity_name, email) ==
  LET activity == find_one(col, activity_name)
  IN  IF activity = None
        THEN HTTPException(404, "Activity not found")
      ELSE Proceed

\* unregister_from_activity up to its update_one call.
UnregisterCheck(col, activity_name, email) ==
  LET activity == find_one(col, activity_name)
      participants == Get(activity, "participants", <<>>)
  IN  IF activity = None
        THEN HTTPException(404, "Activity not found")
      ELSE IF ~Contains(participants, email)
        THEN HTTPException(400, "Student is not signed up for this activity")
      ELSE Proceed

SignupMessage(activity_name, email) ==
  "Signed up " \o email \o " for " \o activity_name

UnregisterMessage(activity_name, email) ==
  "Unregistered " \o email \o " from " \o activity_name

\* Faulty variant of CollectActivities: only a record without a name is
\* skipped, one with an empty name is listed.
RECURSIVE CollectActivities_ListsEmptyName(_, _, _)
CollectActivities_ListsEmptyName(docs, i, result) ==
  IF i > Len(docs) THEN result
  ELSE IF "name" \notin DOMAIN docs[i]
    THEN CollectActivities_ListsEmptyName(docs, i + 1, result)
  ELSE CollectActivities_ListsEmptyName(docs, i + 1,
         SetField(result, docs[i]["name"],
                  [description |-> Get(docs[i], "description", ""),
                   schedule |-> Get(docs[i], "schedule", ""),
                   max_participants |-> Get(docs[i], "max_participants", 0),
                   participants |-> Get(docs[i], "participants", <<>>)]))

\* get_activities' loop over docs[i..], adding to result.
RECURSIVE CollectActivities(_, _, _)
CollectActivities(docs, i, result) ==
  IF i > Len(docs) THEN result
  ELSE IF "name" \notin DOMAIN docs[i] \/ docs[i]["name"] = ""
    THEN CollectActivities(docs, i + 1, result)
  ELSE CollectActivities(docs, i + 1,
         SetField(result, docs[i]["name"],
                  [description |-> Get(docs[i], "description", ""),
                   schedule |-> Get(docs[i], "schedule", ""),
                   max_participants |-> Get(docs[i], "max_participants", 0),
                   participants |-> Get(docs[i], "participants", <<>>)]))

\* The mapping GET /activities returns for the collection col.
ActivitiesView(col) == CollectActivities(col, 1, <<>>)

(***************************************************************************)
(* Stores the service can be started against.                               *)
(***************************************************************************)
\* A database nothing has written to.
EmptyStore == <<>>

RECURSIVE SignedUp(_, _, _)
\* col after successful signups of emails, in order, for activity_name.
SignedUp(col, activity_name, emails) ==
  IF emails = <<>> THEN col
  ELSE SignedUp(update_one_push(col, activity_name, Head(emails)),
                activity_name, Tail(emails))

\* A database an earlier run of the service left: the seed, and Math Club
\* one signup short of its capacity of 10.
EarlierRunStore ==
  SignedUp(seed_activities_if_empty(EmptyStore), "Math Club",
           <<"michael@mergington.edu", "daniel@mergington.edu",
             "emma@mergington.edu", "sophia@mergington.edu",
             "john@mergington.edu", "olivia@mergington.edu",
             "liam@mergington.edu">>)

\* A database written out of band: documents lacking fields, one of them
\* with more participants than its (absent) capacity allows.
ForeignStore ==
  << [name |-> "Robotics Club", max_participants |-> 1],
     [name |-> "Ghost Club", participants |-> <<"alice@mergington.edu">>],
     [description |-> "No name"],
     [name |-> "", max_participants |-> 5] >>

(***************************************************************************)
(* State.                                                                   *)
(***************************************************************************)
VARIABLES
  store,       \* the documents of the collection `activities`, in order
  storeUp,     \* is the database reachable?
  started,     \* has the service been started?
  pc,          \* per worker: "idle", or "update" (find_one and the checks
               \* done, update_one to come)
  req,         \* per worker: the request being handled, None when idle
  event,       \* what the last step answered: the request and its response,
               \* None when the step answered nothing
  seeded,      \* history: the store holds only what seeding and the API wrote
  overlapped   \* history: two signups for the same activity and email were
               \* in flight at the same time

vars == <<store, storeUp, started, pc, req, event, seeded, overlapped>>

Init ==
  /\ store \in {EmptyStore, EarlierRunStore, ForeignStore}
  /\ seeded = (store # ForeignStore)
  /\ storeUp \in BOOLEAN
  /\ started = FALSE
  /\ pc = [p \in Procs |-> "idle"]
  /\ req = [p \in Procs |-> None]
  /\ event = None
  /\ overlapped = FALSE

(***************************************************************************)
(* Environment: the database goes away and comes back.                      *)
(***************************************************************************)
StoreDown ==
  /\ storeUp
  /\ storeUp' = FALSE
  /\ event' = None
  /\ UNCHANGED <<store, started, pc, req, seeded, overlapped>>

StoreBack ==
  /\ ~storeUp
  /\ storeUp' = TRUE
  /\ event' = None
  /\ UNCHANGED <<store, started, pc, req, seeded, overlapped>>

(***************************************************************************)
(* Service start.                                                           *)
(***************************************************************************)
\* Faulty variant of StartupStore: seeds although the store does not answer.
StartupStore_IgnoresOutage(col, up) == seed_activities_if_empty(col)

\* The collection after on_startup; up says whether the store answers
\* (otherwise seed_activities_if_empty raises and the except clause passes).
StartupStore(col, up) ==
  IF up THEN seed_activities_if_empty(col) ELSE col

StartupEvent == [req |-> [op |-> "startup"], resp |-> None]

\* The process starts (or restarts, no request being in flight).
on_startup ==
  /\ \A p \in Procs : pc[p] = "idle"
  /\ store' = StartupStore(store, storeUp)
  /\ started' = TRUE
  /\ event' = StartupEvent
  /\ UNCHANGED <<storeUp, pc, req, seeded, overlapped>>

(***************************************************************************)
(* Request handlers.                                                        *)
(***************************************************************************)
Request(op, activity_name, email) ==
  [op |-> op, activity_name |-> activity_name, email |-> email]

Answer(request, response) == [req |-> request, resp |-> response]

\* The server hands an incoming request to a free worker.  The workers are
\* interchangeable, so it is always the first free one.
Dispatch(p) ==
  /\ started
  /\ pc[p] = "idle"
  /\ \A q \in 1..(p - 1) : pc[q] # "idle"

\* Is a signup for the same activity and email in flight in another worker?
SameSignupInFlight(p, activity_name, email) ==
  \E q \in Procs \ {p} :
    pc[q] = "update" /\ req[q] = Request("signup", activity_name, email)

\* POST /activities/{activity_name}/signup: find_one and the checks.
signup_for_activity(p, activity_name, email) ==
  /\ Dispatch(p)
  /\ LET request == Request("signup", activity_name, email)
         r == IF storeUp THEN SignupCheck(store, activity_name, email)
              ELSE ServerError
     IN  IF r = Proceed
         THEN /\ pc' = [pc EXCEPT ![p] = "update"]
              /\ req' = [req EXCEPT ![p] = request]
              /\ event' = None
         ELSE /\ event' = Answer(request, r)
              /\ UNCHANGED <<pc, req>>
  /\ overlapped' = (overlapped \/ SameSignupInFlight(p, activity_name, email))
  /\ UNCHANGED <<store, storeUp, started, seeded>>

\* signup_for_activity: update_one with $push, and the return.
signup_update(p) ==
  /\ pc[p] = "update"
  /\ req[p].op = "signup"
  /\ IF storeUp
     THEN /\ store' = update_one_push(store, req[p].activity_name, req[p].email)
          /\ event' = Answer(req[p],
                        Ok(SignupMessage(req[p].activity_name, req[p].email)))
     ELSE /\ store' = store
          /\ event' = Answer(req[p], ServerError)
  /\ pc' = [pc EXCEPT ![p] = "idle"]
  /\ req' = [req EXCEPT ![p] = None]
  /\ UNCHANGED <<storeUp, started, seeded, overlapped>>

\* DELETE /activities/{activity_name}/unregister: find_one and the checks.
unregister_from_activity(p, activity_name, email) ==
  /\ Dispatch(p)
  /\ LET request == Request("unregister", activity_name, email)
         r == IF storeUp THEN UnregisterCheck(store, activity_name, email)
              ELSE ServerError
     IN  IF r = Proceed
         THEN /\ pc' = [pc EXCEPT ![p] = "update"]
              /\ req' = [req EXCEPT ![p] = request]
              /\ event' = None
         ELSE /\ event' = Answer(request, r)
              /\ UNCHANGED <<pc, req>>
  /\ UNCHANGED <<store, storeUp, started, seeded, overlapped>>

\* unregister_from_activity: update_one with $pull, and the return.
unregister_update(p) ==
  /\ pc[p] = "update"
  /\ req[p].op = "unregister"
  /\ IF storeUp
     THEN /\ store' = update_one_pull(store, req[p].activity_name, req[p].email)
          /\ event' = Answer(req[p],
                        Ok(UnregisterMessage(req[p].activity_name, req[p].email)))
     ELSE /\ store' = store
          /\ event' = Answer(req[p], ServerError)
  /\ pc' = [pc EXCEPT ![p] = "idle"]
  /\ req' = [req EXCEPT ![p] = None]
  /\ UNCHANGED <<storeUp, started, seeded, overlapped>>

\* GET /activities
get_activities(p) ==
  /\ Dispatch(p)
  /\ event' = Answer([op |-> "list"],
                     IF storeUp
                     THEN [status |-> 200, body |-> ActivitiesView(store)]
                     ELSE ServerError)
  /\ UNCHANGED <<store, storeUp, started, pc, req, seeded, overlapped>>

(***************************************************************************)
(* Specifications.                                                          *)
(***************************************************************************)
\* Requests handled concurrently by the workers.
Next ==
  \/ StoreDown
  \/ StoreBack
  \/ on_startup
  \/ \E p \in Procs, a \in ActivityNames, e \in Emails :
       signup_for_activity(p, a, e)
  \/ \E p \in Procs : signup_update(p)
  \/ \E p \in Procs, a \in ActivityNames, e \in Emails :
       unregister_from_activity(p, a, e)
  \/ \E p \in Procs : unregister_update(p)
  \/ \E p \in Procs : get_activities(p)

Spec == Init /\ [][Next]_vars

\* No other worker is handling a request.
Alone(p) == \A q \in Procs \ {p} : pc[q] = "idle"

\* Requests handled one at a time: each runs to completion before the next
\* one starts.
SeqNext ==
  \/ StoreDown
  \/ StoreBack
  \/ on_startup
  \/ \E p \in Procs, a \in ActivityNames, e \in Emails :
       Alone(p) /\ signup_for_activity(p, a, e)
  \/ \E p \in Procs : signup_update(p)
  \/ \E p \in Procs, a \in ActivityNames, e \in Emails :
       Alone(p) /\ unregister_from_activity(p, a, e)
  \/ \E p \in Procs : unregister_update(p)
  \/ \E p \in Procs : Alone(p) /\ get_activities(p)

SeqSpec == Init /\ [][SeqNext]_vars

(***************************************************************************)
(* Vocabulary of the properties: what a store holds for an activity name,   *)
(* read off the documents without the handlers' helpers.                    *)
(***************************************************************************)
\* A record with that name exists.
HasRecord(col, a) ==
  \E i \in 1..Len(col) : "name" \in DOMAIN col[i] /\ col[i].name = a

\* The record with that name.
RecordOf(col, a) ==
  col[CHOOSE i \in 1..Len(col) : "name" \in DOMAIN col[i] /\ col[i].name = a]

\* Its participants list; a record without the field has none.
RosterOf(col, a) ==
  IF "participants" \in DOMAIN RecordOf(col, a)
  THEN RecordOf(col, a).participants ELSE <<>>

\* Its capacity; a record without the field has capacity 0.
CapacityOf(col, a) ==
  IF "max_participants" \in DOMAIN RecordOf(col, a)
  THEN RecordOf(col, a).max_participants ELSE 0

\* How often email e occurs in the list.
Occurrences(list, e) == Cardinality({i \in 1..Len(list) : list[i] = e})

InRoster(col, a, e) == Occurrences(RosterOf(col, a), e) > 0

IsFull(col, a) == Len(RosterOf(col, a)) >= CapacityOf(col, a)

\* A step of worker p that settles the request op(a, e) at its find: it
\* answers response, writes nothing and leaves no update pending.
Rejects(p, op, a, e, response) ==
  /\ event' = [req |-> [op |-> op, activity_name |-> a, email |-> e],
               resp |-> response]
  /\ pc'[p] = "idle"
  /\ store' = store

\* A step of worker p that passes the checks and goes on to its update.
GoesOn(p, op, a, e) ==
  /\ pc'[p] = "update"
  /\ req'[p] = [op |-> op, activity_name |-> a, email |-> e]
  /\ event' = None
  /\ store' = store

\* The request a step of worker p is about: the one it answers, or the one
\* it leaves pending.
Handled(p) == IF event' # None THEN event'.req ELSE req'[p]

\* The step is worker p's find step of a signup, of an unregister; the step
\* is worker p's GET /activities.
SignupFind(p) ==
  LET R == Handled(p)
  IN  R # None /\ R.op = "signup"
        /\ signup_for_activity(p, R.activity_name, R.email)

UnregisterFind(p) ==
  LET R == Handled(p)
  IN  R # None /\ R.op = "unregister"
        /\ unregister_from_activity(p, R.activity_name, R.email)

ListStep(p) ==
  event' # None /\ event'.req.op = "list" /\ get_activities(p)

\* The names of the documents that have one.
NamesIn(col) == {col[i].name : i \in {j \in 1..Len(col) : "name" \in DOMAIN col[j]}}

\* GET /activities shows, for every named activity, the stored roster.
ListShowsRosters ==
  \A p \in Procs :
    (ListStep(p) /\ storeUp) =>
      /\ event'.resp.status = 200
      /\ \A a \in NamesIn(store) \ {""} :
           event'.resp.body[a].participants = RosterOf(store, a)

\* The Math Club roster of the seed, and of the store an earlier run left.
SeedMathRoster == <<"james@mergington.edu", "benjamin@mergington.edu">>

EarlierMathRoster ==
  SeedMathRoster \o
    <<"michael@mergington.edu", "daniel@mergington.edu",
      "emma@mergington.edu", "sophia@mergington.edu",
      "john@mergington.edu", "olivia@mergington.edu", "liam@mergington.edu">>

(***************************************************************************)
(* C1: a signup is checked for existence, then duplicate, then capacity,    *)
(* and the first failing check decides the answer (while the store is       *)
(* reachable): 404 "Activity not found" if no record has the name;          *)
(* otherwise 400 "Student is already signed up" if the email is in the      *)
(* roster, full or not; otherwise 400 "No spots available" if the roster    *)
(* has reached the capacity; otherwise the handler goes on to its update,   *)
(* which answers 200.                                                       *)
(***************************************************************************)
ExpectedSignup(col, a, e) ==
  IF ~HasRecord(col, a) THEN [status |-> 404, detail |-> "Activity not found"]
  ELSE IF InRoster(col, a, e)
    THEN [status |-> 400, detail |-> "Student is already signed up"]
  ELSE IF IsFull(col, a)
    THEN [status |-> 400, detail |-> "No spots available"]
  ELSE [status |-> 200]

C1_CheckOrder ==
  [][\A p \in Procs :
       LET a == Handled(p).activity_name
           e == Handled(p).email
       IN  /\ (SignupFind(p) /\ storeUp) =>
                 IF ExpectedSignup(store, a, e).status = 200
                 THEN GoesOn(p, "signup", a, e)
                 ELSE Rejects(p, "signup", a, e, ExpectedSignup(store, a, e))
           /\ (signup_update(p) /\ storeUp) => event'.resp.status = 200]_vars

\* A full Math Club answers "already signed up" to one of its members.
C1_Witness ==
  /\ event = [req |-> [op |-> "signup", activity_name |-> "Math Club",
                       email |-> "alice@mergington.edu"],
              resp |-> [status |-> 400, detail |-> "Student is already signed up"]]
  /\ Len(RosterOf(store, "Math Club")) >= 10
  /\ CapacityOf(store, "Math Club") = 10

(***************************************************************************)
(* C2: a signup for an existing activity, with an email not in the roster   *)
(* and a free spot, goes through (while the store is reachable): it answers *)
(* 200 "Signed up {email} for {activity_name}", the roster afterwards is    *)
(* the roster before the update with the email appended as last element,    *)
(* and GET /activities shows the stored rosters.                            *)
(***************************************************************************)
C2_SignupAppends ==
  [][/\ \A p \in Procs :
          /\ LET a == Handled(p).activity_name
                 e == Handled(p).email
             IN  ( /\ SignupFind(p)
                   /\ storeUp
                   /\ HasRecord(store, a)
                   /\ ~InRoster(store, a, e)
                   /\ Len(RosterOf(store, a)) < CapacityOf(store, a) )
                 => GoesOn(p, "signup", a, e)
          /\ (signup_update(p) /\ storeUp) =>
               LET a == req[p].activity_name
                   e == req[p].email
               IN  /\ event'.req = req[p]
                   /\ event'.resp =
                        [status |-> 200,
                         message |-> "Signed up " \o e \o " for " \o a]
                   /\ RosterOf(store', a) = RosterOf(store, a) \o <<e>>
     /\ ListShowsRosters]_vars

\* Bob takes the last spot of the Math Club an earlier run left.
C2_Witness ==
  /\ event = [req |-> [op |-> "signup", activity_name |-> "Math Club",
                       email |-> "bob@mergington.edu"],
              resp |-> [status |-> 200,
                        message |-> "Signed up bob@mergington.edu for Math Club"]]
  /\ RosterOf(store, "Math Club") = EarlierMathRoster \o <<"bob@mergington.edu">>

(***************************************************************************)
(* C3: starting from the seeded store, with requests handled one at a      *)
(* time, no activity ever has more participants than max_participants.      *)
(***************************************************************************)
WithinCapacity(col) ==
  \A a \in NamesIn(col) : Len(RosterOf(col, a)) <= CapacityOf(col, a)

C3_CapacityRespected == seeded => WithinCapacity(store)

\* A seeded Math Club that is full has just turned a newcomer away.
C3_Witness ==
  /\ seeded
  /\ HasRecord(store, "Math Club")
  /\ Len(RosterOf(store, "Math Club")) = CapacityOf(store, "Math Club")
  /\ event # None
  /\ event.req.op = "signup"
  /\ event.req.activity_name = "Math Club"
  /\ event.resp = [status |-> 400, detail |-> "No spots available"]

(***************************************************************************)
(* C4, as claimed: starting from the seeded store, under signups and        *)
(* unregisters of concurrent callers whose find and update interleave, an   *)
(* email appears at most once in any activity's participants list.          *)
(***************************************************************************)
NoDuplicates(col) ==
  \A a \in NamesIn(col), e \in Emails : Occurrences(RosterOf(col, a), e) <= 1

C4_Claimed_Unique == seeded => NoDuplicates(store)

(***************************************************************************)
(* C4, amended: starting from the seeded store, under signups and           *)
(* unregisters of concurrent callers, an email appears at most once in any  *)
(* activity's participants list as long as no two signups for the same      *)
(* activity and email have been in flight at the same time.                 *)
(***************************************************************************)
C4_UniqueUnlessOverlap == (seeded /\ ~overlapped) => NoDuplicates(store)

\* Two signups of different emails raced for the last spot of Math Club:
\* both got in, and still nobody is listed twice.
C4_Witness ==
  /\ seeded
  /\ ~overlapped
  /\ HasRecord(store, "Math Club")
  /\ Len(RosterOf(store, "Math Club")) = CapacityOf(store, "Math Club") + 1
  /\ InRoster(store, "Math Club", "alice@mergington.edu")
  /\ InRoster(store, "Math Club", "bob@mergington.edu")

(***************************************************************************)
(* C5: a signup whose email is already in the activity's participants      *)
(* answers 400 "Student is already signed up" and writes nothing: the       *)
(* store is the same before and after, and no update follows.               *)
(***************************************************************************)
C5_DuplicateRejected ==
  [][\A p \in Procs :
       LET a == Handled(p).activity_name
           e == Handled(p).email
       IN
       ( /\ SignupFind(p)
         /\ storeUp
         /\ HasRecord(store, a)
         /\ InRoster(store, a, e) )
       => /\ Rejects(p, "signup", a, e,
                     [status |-> 400, detail |-> "Student is already signed up"])
          /\ \A q \in Procs : pc'[q] = pc[q] /\ req'[q] = req[q]]_vars

\* Alice, a member of the seeded Math Club with spots left, signs up again.
C5_Witness ==
  /\ event = [req |-> [op |-> "signup", activity_name |-> "Math Club",
                       email |-> "alice@mergington.edu"],
              resp |-> [status |-> 400, detail |-> "Student is already signed up"]]
  /\ RosterOf(store, "Math Club") = SeedMathRoster \o <<"alice@mergington.edu">>

(***************************************************************************)
(* C6: a signup with an email not in the roster, for an existing activity   *)
(* whose roster has reached max_participants (an absent max_participants    *)
(* counting as 0), answers 400 "No spots available" and leaves the store    *)
(* unchanged.                                                               *)
(***************************************************************************)
C6_FullRejected ==
  [][\A p \in Procs :
       LET a == Handled(p).activity_name
           e == Handled(p).email
       IN
       ( /\ SignupFind(p)
         /\ storeUp
         /\ HasRecord(store, a)
         /\ ~InRoster(store, a, e)
         /\ Len(RosterOf(store, a)) >=
              (IF "max_participants" \in DOMAIN RecordOf(store, a)
               THEN RecordOf(store, a).max_participants ELSE 0) )
       => Rejects(p, "signup", a, e,
                  [status |-> 400, detail |-> "No spots available"])]_vars

\* Bob is turned away by Ghost Club, whose record has no max_participants.
C6_Witness ==
  /\ event = [req |-> [op |-> "signup", activity_name |-> "Ghost Club",
                       email |-> "bob@mergington.edu"],
              resp |-> [status |-> 400, detail |-> "No spots available"]]
  /\ HasRecord(store, "Ghost Club")
  /\ "max_participants" \notin DOMAIN RecordOf(store, "Ghost Club")

(***************************************************************************)
(* C7: an unregister for an existing activity with an email in its roster   *)
(* goes through (while the store is reachable): it answers 200              *)
(* "Unregistered {email} from {activity_name}", afterwards the email does   *)
(* not occur in the roster while all other entries remain in their previous *)
(* relative order, and GET /activities shows the stored rosters.            *)
(***************************************************************************)
\* list is sub with some occurrences of e put back in: the entries other
\* than e are the same, in the same order.
RECURSIVE SameButFor(_, _, _)
SameButFor(list, sub, e) ==
  IF list = <<>> THEN sub = <<>>
  ELSE IF Head(list) = e THEN SameButFor(Tail(list), sub, e)
  ELSE /\ sub # <<>>
       /\ Head(sub) = Head(list)
       /\ SameButFor(Tail(list), Tail(sub), e)

C7_UnregisterRemoves ==
  [][/\ \A p \in Procs :
          /\ LET a == Handled(p).activity_name
                 e == Handled(p).email
             IN  ( /\ UnregisterFind(p)
                   /\ storeUp
                   /\ HasRecord(store, a)
                   /\ InRoster(store, a, e) )
                 => GoesOn(p, "unregister", a, e)
          /\ (unregister_update(p) /\ storeUp) =>
               LET a == req[p].activity_name
                   e == req[p].email
               IN  /\ event'.req = req[p]
                   /\ event'.resp =
                        [status |-> 200,
                         message |-> "Unregistered " \o e \o " from " \o a]
                   /\ ~InRoster(store', a, e)
                   /\ SameButFor(RosterOf(store, a), RosterOf(store', a), e)
     /\ ListShowsRosters]_vars

\* Alice leaves the seeded Math Club she joined before Bob: Bob stays,
\* behind the two seeded members.
C7_Witness ==
  /\ event = [req |-> [op |-> "unregister", activity_name |-> "Math Club",
                       email |-> "alice@mergington.edu"],
              resp |-> [status |-> 200,
                        message |-> "Unregistered alice@mergington.edu from Math Club"]]
  /\ RosterOf(store, "Math Club") = SeedMathRoster \o <<"bob@mergington.edu">>

(***************************************************************************)
(* C8: an unregister for an existing activity with an email not in its      *)
(* roster answers 400 "Student is not signed up for this activity" and      *)
(* leaves the store unchanged.                                              *)
(***************************************************************************)
C8_NotSignedUpRejected ==
  [][\A p \in Procs :
       LET a == Handled(p).activity_name
           e == Handled(p).email
       IN
       ( /\ UnregisterFind(p)
         /\ storeUp
         /\ HasRecord(store, a)
         /\ ~InRoster(store, a, e) )
       => Rejects(p, "unregister", a, e,
                  [status |-> 400,
                   detail |-> "Student is not signed up for this activity"])]_vars

\* Bob, who never joined, tries to leave the Math Club an earlier run left.
C8_Witness ==
  /\ event = [req |-> [op |-> "unregister", activity_name |-> "Math Club",
                       email |-> "bob@mergington.edu"],
              resp |-> [status |-> 400,
                        detail |-> "Student is not signed up for this activity"]]
  /\ RosterOf(store, "Math Club") = EarlierMathRoster

(***************************************************************************)
(* C9: a signup or an unregister naming an activity that has no record      *)
(* answers 404 "Activity not found", whatever the email, and leaves the     *)
(* store unchanged: no record is created for the unknown name.              *)
(***************************************************************************)
C9_UnknownActivity ==
  [][\A p \in Procs :
       LET a == Handled(p).activity_name
           e == Handled(p).email
       IN
       /\ (SignupFind(p) /\ storeUp /\ ~HasRecord(store, a))
          => /\ Rejects(p, "signup", a, e,
                        [status |-> 404, detail |-> "Activity not found"])
             /\ ~HasRecord(store', a)
       /\ (UnregisterFind(p) /\ storeUp /\ ~HasRecord(store, a))
          => /\ Rejects(p, "unregister", a, e,
                        [status |-> 404, detail |-> "Activity not found"])
             /\ ~HasRecord(store', a)]_vars

\* An unregister from Ghost Club, which the seeded store does not have.
C9_Witness ==
  /\ event = [req |-> [op |-> "unregister", activity_name |-> "Ghost Club",
                       email |-> "alice@mergington.edu"],
              resp |-> [status |-> 404, detail |-> "Activity not found"]]
  /\ Len(store) = 9
  /\ ~HasRecord(store, "Ghost Club")

(***************************************************************************)
(* C10: startup seeds only when the record count is zero.  Started against  *)
(* an empty reachable store it inserts exactly the nine seed activities     *)
(* (distinct names, two participants each); started against a non-empty     *)
(* store, any number of times, it inserts nothing and changes no record,    *)
(* whatever participants were added or removed since the first start.       *)
(***************************************************************************)
SeedNames ==
  {"Chess Club", "Programming Class", "Gym Class", "Soccer Team",
   "Basketball Team", "Art Club", "Drama Club", "Math Club", "Debate Team"}

C10_SeedOnlyWhenEmpty ==
  [][on_startup =>
       /\ (storeUp /\ Len(store) = 0) =>
            /\ Len(store') = 9
            /\ {store'[i].name : i \in 1..Len(store')} = SeedNames
            /\ \A i, j \in 1..Len(store') :
                 i # j => store'[i].name # store'[j].name
            /\ \A i \in 1..Len(store') : Len(store'[i].participants) = 2
            /\ store' = INITIAL_ACTIVITIES
       /\ Len(store) # 0 => store' = store]_vars

\* The service restarts after Alice joined the Math Club it had seeded on
\* its first start: the roster still has her.
C10_Witness ==
  /\ event = [req |-> [op |-> "startup"], resp |-> <<>>]
  /\ Len(store) = 9
  /\ RosterOf(store, "Math Club") = SeedMathRoster \o <<"alice@mergington.edu">>

(***************************************************************************)
(* C11: when the store is unreachable at startup (count_documents or        *)
(* insert_many raises; either way no document is written), the error is     *)
(* swallowed: startup completes with the workers free to take requests,     *)
(* nothing is seeded, and no step other than a startup ever adds a record   *)
(* to the store.                                                            *)
(***************************************************************************)
C11_OutageSwallowed ==
  [][/\ (on_startup /\ ~storeUp) =>
          /\ started'
          /\ \A p \in Procs : pc'[p] = "idle"
          /\ store' = store
     /\ (event' # [req |-> [op |-> "startup"], resp |-> <<>>]) =>
          Len(store') = Len(store)]_vars

\* The service started while the store was away; the store is back, still
\* empty, and a signup has been answered "Activity not found".
C11_Witness ==
  /\ started
  /\ storeUp
  /\ store = <<>>
  /\ event = [req |-> [op |-> "signup", activity_name |-> "Math Club",
                       email |-> "alice@mergington.edu"],
              resp |-> [status |-> 404, detail |-> "Activity not found"]]

\* The fields of a record no request may touch.
FixedFields == {"name", "description", "schedule", "max_participants"}

\* Records d and e agree on field k: both lack it, or both hold the same
\* value.
SameField(d, e, k) ==
  /\ (k \in DOMAIN d) <=> (k \in DOMAIN e)
  /\ (k \in DOMAIN d) => d[k] = e[k]

\* Collections c and d hold the same records but for the participants.
SameRecords(c, d) ==
  /\ Len(c) = Len(d)
  /\ \A i \in 1..Len(c) : \A k \in FixedFields : SameField(c[i], d[i], k)

(***************************************************************************)
(* C12: a step that changes the store and is not a startup neither adds    *)
(* nor removes a record nor changes a name, description, schedule or        *)
(* max_participants; it changes a participants list only as the update of   *)
(* a signup or unregister naming that very record; and a changed store      *)
(* that descends from the seed holds the nine seeded records with these     *)
(* four fields as seeded.                                                   *)
(***************************************************************************)
C12_RequestsTouchOneRoster ==
  [][store' # store =>
       /\ (event' # [req |-> [op |-> "startup"], resp |-> <<>>]) =>
            /\ SameRecords(store, store')
            /\ \A i \in 1..Len(store) :
                 ~SameField(store[i], store'[i], "participants") =>
                    \E p \in Procs :
                       /\ pc[p] = "update"
                       /\ pc'[p] = "idle"
                       /\ "name" \in DOMAIN store[i]
                       /\ req[p].activity_name = store[i].name
       /\ seeded' => SameRecords(store', INITIAL_ACTIVITIES)
    ]_vars

\* A signup for Robotics Club has been answered 200 in a store of records
\* that lack fields: the record gained its roster, Ghost Club and the two
\* unnamed records are as they were.
C12_Witness ==
  /\ event = [req |-> [op |-> "signup", activity_name |-> "Robotics Club",
                       email |-> "bob@mergington.edu"],
              resp |-> [status |-> 200,
                        message |-> "Signed up bob@mergington.edu for Robotics Club"]]
  /\ Len(store) = 4
  /\ store[1] = [name |-> "Robotics Club", max_participants |-> 1,
                 participants |-> <<"bob@mergington.edu">>]
  /\ store[2] = [name |-> "Ghost Club",
                 participants |-> <<"alice@mergington.edu">>]
  /\ store[3] = [description |-> "No name"]
  /\ store[4] = [name |-> "", max_participants |-> 5]

\* The records of col that GET /activities lists: those with a name that is
\* not empty.
Listed(col) ==
  {i \in 1..Len(col) : "name" \in DOMAIN col[i] /\ col[i].name # ""}

\* The value of field k of record d, or dflt where the record lacks it.
StoredOr(d, k, dflt) == IF k \in DOMAIN d THEN d[k] ELSE dflt

(***************************************************************************)
(* C13: GET /activities answered by a reachable store leaves the store as   *)
(* it is and returns 200 with a mapping whose keys are the names of the     *)
(* records that have a non-empty name, one entry for each such record;      *)
(* each entry holds the stored description, schedule, max_participants and  *)
(* participants, or "", "", 0 and the empty list where the record lacks     *)
(* the field.  Records without a name or with an empty one have no entry.   *)
(***************************************************************************)
C13_ListIsTheStore ==
  [][\A p \in Procs :
       (ListStep(p) /\ storeUp) =>
          /\ store' = store
          /\ event'.resp.status = 200
          /\ DOMAIN event'.resp.body = {store[i].name : i \in Listed(store)}
          /\ Cardinality(DOMAIN event'.resp.body) = Cardinality(Listed(store))
          /\ \A i \in Listed(store) :
               event'.resp.body[store[i].name] =
                 [description |-> StoredOr(store[i], "description", ""),
                  schedule |-> StoredOr(store[i], "schedule", ""),
                  max_participants |-> StoredOr(store[i], "max_participants", 0),
                  participants |-> StoredOr(store[i], "participants", <<>>)]
    ]_vars

\* GET /activities has been answered from the store of records that lack
\* fields: two entries, with the defaults where the fields are missing.
C13_Witness ==
  /\ Len(store) = 4
  /\ event # <<>>
  /\ event.req = [op |-> "list"]
  /\ event.resp.status = 200
  /\ DOMAIN event.resp.body = {"Robotics Club", "Ghost Club"}
  /\ event.resp.body["Robotics Club"] =
       [description |-> "", schedule |-> "", max_participants |-> 1,
        participants |-> <<>>]
  /\ event.resp.body["Ghost Club"] =
       [description |-> "", schedule |-> "", max_participants |-> 0,
        participants |-> <<"alice@mergington.edu">>]

(***************************************************************************)
(* C14: the find and the update of a signup are separate steps with no      *)
(* guard between them: the find writes nothing, and an update that runs     *)
(* after another signup has filled the roster in the meantime still         *)
(* appends its email and answers 200, so the roster grows past              *)
(* max_participants.  The witness is the interleaving of two signups with   *)
(* different emails for the one free spot.                                  *)
(***************************************************************************)
C14_UpdateIsUnguarded ==
  [][\A p \in Procs :
       /\ SignupFind(p) => store' = store
       /\ ( /\ signup_update(p)
            /\ storeUp
            /\ HasRecord(store, req[p].activity_name)
            /\ IsFull(store, req[p].activity_name) )
          => /\ Len(RosterOf(store', req[p].activity_name)) =
                  Len(RosterOf(store, req[p].activity_name)) + 1
             /\ Len(RosterOf(store', req[p].activity_name)) >
                  CapacityOf(store', req[p].activity_name)
             /\ event' # <<>>
             /\ event'.resp.status = 200
    ]_vars

\* Math Club had nine of ten; alice and bob both passed the find before
\* either wrote; alice's update took the tenth place and bob's, answered 200
\* in the last step, the eleventh.
C14_Witness ==
  /\ seeded
  /\ \A p \in Procs : pc[p] = "idle"
  /\ HasRecord(store, "Math Club")
  /\ RosterOf(store, "Math Club") =
       EarlierMathRoster \o <<"alice@mergington.edu", "bob@mergington.edu">>
  /\ CapacityOf(store, "Math Club") = 10
  /\ event = [req |-> [op |-> "signup", activity_name |-> "Math Club",
                       email |-> "bob@mergington.edu"],
              resp |-> [status |-> 200,
                        message |-> "Signed up bob@mergington.edu for Math Club"]]

\* Worker p's step is the update of a signup that the store answers, made
\* on a roster that lacks the email and has a free spot.
SignupSucceeds(p) ==
  /\ signup_update(p)
  /\ storeUp
  /\ HasRecord(store, req[p].activity_name)
  /\ ~InRoster(store, req[p].activity_name, req[p].email)
  /\ Len(RosterOf(store, req[p].activity_name)) <
       CapacityOf(store, req[p].activity_name)

\* Record d with an empty participants list in place of whatever it had.
WithEmptyRoster(d) ==
  [k \in DOMAIN d \cup {"participants"} |->
     IF k = "participants" THEN <<>> ELSE d[k]]

\* C15 as claimed: the unregister that directly follows a successful signup
\* of the same email for the same activity passes its checks and leaves the
\* store exactly as it was before the signup.  It fails for a record stored
\* without a participants field.
C15_Claimed_ExactRoundTrip ==
  [][\A p \in Procs :
       SignupSucceeds(p) =>
          /\ UnregisterCheck(store', req[p].activity_name, req[p].email)
               = [status |-> 0]
          /\ update_one_pull(store', req[p].activity_name, req[p].email)
               = store
    ]_vars

(***************************************************************************)
(* C15: requests being handled one at a time, the unregister that directly  *)
(* follows a successful signup of the same email for the same activity      *)
(* passes its checks and leaves every other record untouched; the record    *)
(* signed up for is exactly as before the signup, order of the roster       *)
(* included, when it had a participants field, and has gained an empty      *)
(* participants list when it had none.  GET /activities shows the same in   *)
(* both cases.                                                              *)
(***************************************************************************)
C15_RoundTrip ==
  [][\A p \in Procs :
       SignupSucceeds(p) =>
          LET a == req[p].activity_name
              e == req[p].email
              after == update_one_pull(store', a, e)
          IN  /\ UnregisterCheck(store', a, e) = [status |-> 0]
              /\ Len(after) = Len(store)
              /\ \A i \in 1..Len(store) :
                   IF "name" \in DOMAIN store[i] /\ store[i].name = a
                        /\ "participants" \notin DOMAIN store[i]
                   THEN after[i] = WithEmptyRoster(store[i])
                   ELSE after[i] = store[i]
              /\ ActivitiesView(after) = ActivitiesView(store)
    ]_vars

\* alice signed up for Math Club in the freshly seeded store and unregistered
\* right away: the store is the seed again.
C15_Witness ==
  /\ store = INITIAL_ACTIVITIES
  /\ \A p \in Procs : pc[p] = "idle"
  /\ event = [req |-> [op |-> "unregister", activity_name |-> "Math Club",
                       email |-> "alice@mergington.edu"],
              resp |-> [status |-> 200,
                        message |-> "Unregistered alice@mergington.edu from Math Club"]]

\* Worker p's step is the update of an unregister that the store answers,
\* taking a participant out of a roster that is exactly full.
UnregisterFromFull(p) ==
  /\ unregister_update(p)
  /\ storeUp
  /\ HasRecord(store, req[p].activity_name)
  /\ InRoster(store, req[p].activity_name, req[p].email)
  /\ CapacityOf(store, req[p].activity_name) > 0
  /\ Len(RosterOf(store, req[p].activity_name)) =
       CapacityOf(store, req[p].activity_name)

(***************************************************************************)
(* C16: requests being handled one at a time, a successful unregister from  *)
(* an activity that is exactly full (len(participants) = max_participants   *)
(* > 0) frees one spot: the next signup for it, of any email not in the     *)
(* roster, passes the checks and is appended, the activity is full again    *)
(* with max_participants participants, and a further signup of an email     *)
(* not in the roster is refused with "No spots available".                  *)
(***************************************************************************)
C16_FreedSpotIsUsable ==
  [][\A p \in Procs :
       UnregisterFromFull(p) =>
          LET a == req[p].activity_name
          IN  /\ Len(RosterOf(store', a)) = CapacityOf(store, a) - 1
              /\ \A e \in Emails :
                   ~InRoster(store', a, e) =>
                      LET refilled == update_one_push(store', a, e)
                      IN  /\ SignupCheck(store', a, e) = [status |-> 0]
                          /\ Len(RosterOf(refilled, a)) = CapacityOf(refilled, a)
                          /\ \A f \in Emails :
                               ~InRoster(refilled, a, f) =>
                                  SignupCheck(refilled, a, f) =
                                    [status |-> 400,
                                     detail |-> "No spots available"]
    ]_vars

\* Math Club was full with bob in the tenth place; bob has just been
\* unregistered and nine participants are left.
C16_Witness ==
  /\ seeded
  /\ HasRecord(store, "Math Club")
  /\ RosterOf(store, "Math Club") = EarlierMathRoster
  /\ CapacityOf(store, "Math Club") = 10
  /\ event = [req |-> [op |-> "unregister", activity_name |-> "Math Club",
                       email |-> "bob@mergington.edu"],
              resp |-> [status |-> 200,
                        message |-> "Unregistered bob@mergington.edu from Math Club"]]

====
